---------------------------- MODULE Spec2Model ----------------------------
(***************************************************************************)
(* The intent registry of move/intent_registry/sources/intent_registry.move *)
(* as a state machine.  Every transaction on the shared IntentRegistry and  *)
(* Intent objects is one atomic step (the ledger sequences transactions    *)
(* that touch a shared object); a Move abort rolls the transaction back,   *)
(* so an aborted call changes nothing but the recorded outcome of the      *)
(* call.  Beside the registry: the limit-orders page that polls prices and  *)
(* marks orders triggered, the intent encryption of lib/seal.ts, and the    *)
(* decryption policy seal_policy::intent.                                   *)
(***************************************************************************)
EXTENDS Integers, Sequences, FiniteSets, TLC

\* ------------------------------------------------------------- bounds
\* Number of Intent objects ever created in a run.
MaxIntents == 1
\* Number of orders ever created on the limit-orders page in a run.
MaxOrders == 1
\* Number of EnclaveConfig objects ever shared in a run.
MaxConfigs == 1
\* The clock runs over 0..MaxTime.
MaxTime == 2
\* The stuck threshold used by the recovery sweep, in clock ticks.
StuckThreshold == 1

\* ------------------------------------------------- program constants
STATUS_ACTIVE == 0
STATUS_EXECUTING == 1
STATUS_EXECUTED == 2
STATUS_CANCELLED == 3
STATUS_EXPIRED == 4
STATUS_FAILED == 5

TRIGGER_PRICE_BELOW == 0
TRIGGER_PRICE_ABOVE == 1

ENotOwner == 0
EInvalidStatus == 1
EIntentExpired == 2
EAlreadyExecuting == 3
EInvalidSignature == 4
EInvalidTriggerType == 5

\* --------------------------------------------------------- input sets
\* Transaction senders.
Addrs == {"alice", "bob"}
\* Senders of create_intent.  The module only ever compares addresses for
\* equality, so one creator and one other address cover owner and non-owner.
CreatorInputs == {"alice"}
\* Senders of the enclave's transactions when several coordinators run.
CoordinatorInputs == {"coord1", "coord2", "coord3"}
Times == 0..MaxTime
\* expires_at of a new intent: up to the last instant of the clock.
ExpiresAtInputs == Times
\* trigger_type is a u8: the two defined kinds and one value outside them.
TriggerTypeInputs == {TRIGGER_PRICE_BELOW, TRIGGER_PRICE_ABOVE, TRIGGER_PRICE_ABOVE + 1}
EncryptedDataInputs == {"ct1"}
TriggerValueInputs == {100}
PairHashInputs == {"h1"}
PriceInputs == {95}
DigestInputs == {"tx1"}
ReasonInputs == {"venue"}
EnclavePkInputs == {"pk1"}

\* Option<T>: none is the empty sequence, some(v) the one-element sequence.
None == << >>
Some(v) == <<v>>

\* The result of a run of assertions: no abort, or the code of the first
\* assertion that fails.
Pass == << >>
Abort(code) == <<code>>

VARIABLES
    registry,      \* the shared IntentRegistry object
    intents,       \* the shared Intent objects, in creation order
    enclave_caps,  \* the EnclaveCap objects created so far
    now,           \* Clock.timestamp_ms
    last,          \* the last transaction: the call and its effects
    pre,           \* the objects as they were before the last transaction
    claimed_at,    \* per intent: timestamp of the IntentExecuting event of the claim in progress
    executions,    \* per intent: number of IntentExecuted events so far
    pending,       \* transactions submitted to the ledger and not yet sequenced
    batch,         \* the transactions that were submitted together
    outcome,       \* the effects of the batch's transactions, in the order sequenced
    demo_mode,     \* DEMO_MODE of the build of the limit-orders page
    orders,        \* the page's orders state, in creation order
    mutation,      \* the transaction the page's signAndExecute hook is waiting on
    timers,        \* handlers of the page suspended in their 500 ms timeout
    orders_before, \* the orders state before the last handler of the page
    page_last,     \* the last handler of the page and its arguments
    seal_call,     \* the last call into lib/seal.ts: arguments and result
    enclave_configs, \* the shared EnclaveConfig objects of seal_policy::intent
    approval       \* the last seal_approve transaction: arguments and effects

registry_vars == <<registry, intents, enclave_caps, now, last, pre, claimed_at,
                   executions, pending, batch, outcome>>
page_vars == <<demo_mode, orders, mutation, timers, orders_before, page_last>>
seal_vars == <<seal_call, enclave_configs, approval>>
vars == <<registry_vars, page_vars, seal_vars>>

IntentIds == 1..Len(intents)

\* ----------------------------------------------- transaction effects
NoCall ==
    [op |-> "none", sender |-> "none", intent |-> 0, effects |-> "none",
     code |-> 0, events |-> << >>, expires_at |-> 0, trigger_type |-> 0,
     args |-> << >>]

Call(op, sender, i) ==
    [op |-> op, sender |-> sender, intent |-> i, effects |-> "success",
     code |-> 0, events |-> << >>, expires_at |-> 0, trigger_type |-> 0,
     args |-> << >>]

Snapshot ==
    [registry |-> registry, intents |-> intents, claimed_at |-> claimed_at,
     executions |-> executions]

\* An abort rolls back every write of the transaction.
Aborted(call, code) ==
    /\ last' = [call EXCEPT !.effects = "abort", !.code = code]
    /\ pre' = Snapshot
    /\ UNCHANGED <<registry, intents, enclave_caps, claimed_at, executions>>
    /\ UNCHANGED <<page_vars, seal_vars>>

\* u64 subtraction below zero aborts the transaction with an arithmetic error.
ArithmeticError(call) ==
    /\ last' = [call EXCEPT !.effects = "arithmetic_error"]
    /\ pre' = Snapshot
    /\ UNCHANGED <<registry, intents, enclave_caps, claimed_at, executions>>
    /\ UNCHANGED <<page_vars, seal_vars>>

Succeeded(call, events) ==
    /\ last' = [call EXCEPT !.events = events]
    /\ pre' = Snapshot
    /\ UNCHANGED <<page_vars, seal_vars>>

\* ------------------------------------------------------------- init
\* The page before its first render, and no call into the seal code yet.
PageIdle ==
    /\ demo_mode = FALSE
    /\ orders = << >>
    /\ mutation = None
    /\ timers = {}
    /\ orders_before = << >>
    /\ page_last = [op |-> "none", price |-> 0, order |-> 0]

NoSealCall ==
    [op |-> "none", intent |-> << >>, use_real_seal |-> FALSE,
     key_servers |-> "reachable", created_at |-> 0, key |-> << >>,
     error |-> "none", result |-> None, decrypted |-> None,
     checked |-> << >>, valid |-> FALSE]

NoApproval ==
    [op |-> "none", sender |-> "none", id |-> << >>, config |-> 0,
     signature |-> [signer |-> "none", message |-> << >>],
     wallet_pk |-> "none", timestamp |-> 0, effects |-> "none", code |-> 0]

SealIdle ==
    /\ seal_call = NoSealCall
    /\ enclave_configs = << >>
    /\ approval = NoApproval

RegistryInit ==
    /\ registry = [total_intents |-> 0, active_intents |-> 0, executed_intents |-> 0]
    /\ intents = << >>
    /\ enclave_caps = {}
    /\ now = 0
    /\ last = NoCall
    /\ pre = [registry |-> registry, intents |-> << >>, claimed_at |-> << >>,
              executions |-> << >>]
    /\ claimed_at = << >>
    /\ executions = << >>
    /\ pending = {}
    /\ batch = {}
    /\ outcome = << >>

Init ==
    /\ RegistryInit
    /\ PageIdle
    /\ SealIdle

\* ---------------------------------------------------- user functions
\* Mutant: the expiry comparison admits expires_at = now.
create_intent_checks_ExpiryInclusive(expires_at, trigger_type, t) ==
    IF ~(expires_at >= t) THEN Abort(EIntentExpired)
    ELSE IF ~(trigger_type <= TRIGGER_PRICE_ABOVE) THEN Abort(EInvalidTriggerType)
    ELSE Pass

create_intent_checks(expires_at, trigger_type, t) ==
    IF ~(expires_at > t) THEN Abort(EIntentExpired)
    ELSE IF ~(trigger_type <= TRIGGER_PRICE_ABOVE) THEN Abort(EInvalidTriggerType)
    ELSE Pass

\* Mutant: the payload field is filled from another argument.
NewIntent_PayloadFromPairHash(sender, encrypted_data, trigger_type, trigger_value, pair_hash, expires_at, t) ==
    [owner |-> sender,
     encrypted_data |-> pair_hash,
     created_at |-> t,
     expires_at |-> expires_at,
     status |-> STATUS_ACTIVE,
     trigger_type |-> trigger_type,
     trigger_value |-> trigger_value,
     pair_hash |-> pair_hash,
     executed_at |-> None,
     executed_price |-> None,
     tx_digest |-> None]

NewIntent(sender, encrypted_data, trigger_type, trigger_value, pair_hash, expires_at, t) ==
    [owner |-> sender,
     encrypted_data |-> encrypted_data,
     created_at |-> t,
     expires_at |-> expires_at,
     status |-> STATUS_ACTIVE,
     trigger_type |-> trigger_type,
     trigger_value |-> trigger_value,
     pair_hash |-> pair_hash,
     executed_at |-> None,
     executed_price |-> None,
     tx_digest |-> None]

create_intent(sender, encrypted_data, trigger_type, trigger_value, pair_hash, expires_at) ==
    LET call == [Call("create_intent", sender, 0) EXCEPT
                    !.expires_at = expires_at, !.trigger_type = trigger_type,
                    !.args = <<encrypted_data, trigger_type, trigger_value,
                               pair_hash, expires_at>>]
        abort == create_intent_checks(expires_at, trigger_type, now)
        intent_id == Len(intents) + 1
    IN  IF abort # Pass THEN Aborted(call, abort[1])
        ELSE /\ intents' = Append(intents,
                    NewIntent(sender, encrypted_data, trigger_type, trigger_value,
                              pair_hash, expires_at, now))
             /\ registry' = [registry EXCEPT !.total_intents = @ + 1,
                                             !.active_intents = @ + 1]
             /\ claimed_at' = Append(claimed_at, None)
             /\ executions' = Append(executions, 0)
             /\ Succeeded([call EXCEPT !.intent = intent_id],
                          <<[type |-> "IntentCreated", intent_id |-> intent_id,
                             owner |-> sender, trigger_type |-> trigger_type,
                             trigger_value |-> trigger_value, pair_hash |-> pair_hash,
                             expires_at |-> expires_at]>>)
             /\ UNCHANGED enclave_caps

\* Mutant: the status assertion is missing.
cancel_intent_checks_OwnerOnly(sender, intent) ==
    IF ~(sender = intent.owner) THEN Abort(ENotOwner)
    ELSE Pass

\* Mutant: the two assertions are in the other order.
cancel_intent_checks_StatusFirst(sender, intent) ==
    IF ~(intent.status = STATUS_ACTIVE) THEN Abort(EInvalidStatus)
    ELSE IF ~(sender = intent.owner) THEN Abort(ENotOwner)
    ELSE Pass

cancel_intent_checks(sender, intent) ==
    IF ~(sender = intent.owner) THEN Abort(ENotOwner)
    ELSE IF ~(intent.status = STATUS_ACTIVE) THEN Abort(EInvalidStatus)
    ELSE Pass

cancel_intent(sender, i) ==
    LET call == Call("cancel_intent", sender, i)
        abort == cancel_intent_checks(sender, intents[i])
    IN  IF abort # Pass THEN Aborted(call, abort[1])
        ELSE IF registry.active_intents = 0 THEN ArithmeticError(call)
        ELSE /\ intents' = [intents EXCEPT ![i].status = STATUS_CANCELLED]
             /\ registry' = [registry EXCEPT !.active_intents = @ - 1]
             /\ Succeeded(call, <<[type |-> "IntentCancelled", intent_id |-> i,
                                   cancelled_at |-> now]>>)
             /\ UNCHANGED <<enclave_caps, claimed_at, executions>>

\* ---------------------------------------------------- view functions
get_status(intent) == intent.status
get_owner(intent) == intent.owner
is_active(intent) == intent.status = STATUS_ACTIVE
is_expired(intent, t) == intent.expires_at <= t

\* ------------------------------------------------- enclave functions
\* None of the four takes a TxContext or an EnclaveCap, so none can read the
\* sender of the transaction.
\* Mutant: the expiry comparison admits expires_at = now.
mark_executing_checks_ExpiryInclusive(intent, t) ==
    IF ~(intent.status = STATUS_ACTIVE) THEN Abort(EAlreadyExecuting)
    ELSE IF ~(intent.expires_at >= t) THEN Abort(EIntentExpired)
    ELSE Pass

\* Mutant: the status assertion is missing.
mark_executing_checks_NoStatus(intent, t) ==
    IF ~(intent.expires_at > t) THEN Abort(EIntentExpired)
    ELSE Pass

mark_executing_checks(intent, t) ==
    IF ~(intent.status = STATUS_ACTIVE) THEN Abort(EAlreadyExecuting)
    ELSE IF ~(intent.expires_at > t) THEN Abort(EIntentExpired)
    ELSE Pass

mark_executing(i) ==
    LET call == Call("mark_executing", "none", i)
        abort == mark_executing_checks(intents[i], now)
    IN  IF abort # Pass THEN Aborted(call, abort[1])
        ELSE /\ intents' = [intents EXCEPT ![i].status = STATUS_EXECUTING]
             /\ claimed_at' = [claimed_at EXCEPT ![i] = Some(now)]
             /\ Succeeded(call, <<[type |-> "IntentExecuting", intent_id |-> i,
                                   timestamp |-> now]>>)
             /\ UNCHANGED <<registry, enclave_caps, executions>>

\* Mutant: the assertion is "not executed yet" instead of "executing".
mark_executed_checks_NotExecuted(intent) ==
    IF ~(intent.status # STATUS_EXECUTED) THEN Abort(EInvalidStatus)
    ELSE Pass

mark_executed_checks(intent) ==
    IF ~(intent.status = STATUS_EXECUTING) THEN Abort(EInvalidStatus)
    ELSE Pass

mark_executed(i, executed_price, tx_digest) ==
    LET call == [Call("mark_executed", "none", i) EXCEPT
                    !.args = <<executed_price, tx_digest>>]
        abort == mark_executed_checks(intents[i])
    IN  IF abort # Pass THEN Aborted(call, abort[1])
        ELSE IF registry.active_intents = 0 THEN ArithmeticError(call)
        ELSE /\ intents' = [intents EXCEPT ![i].status = STATUS_EXECUTED,
                                           ![i].executed_at = Some(now),
                                           ![i].executed_price = Some(executed_price),
                                           ![i].tx_digest = Some(tx_digest)]
             /\ registry' = [registry EXCEPT !.active_intents = @ - 1,
                                             !.executed_intents = @ + 1]
             /\ claimed_at' = [claimed_at EXCEPT ![i] = None]
             /\ executions' = [executions EXCEPT ![i] = @ + 1]
             /\ Succeeded(call, <<[type |-> "IntentExecuted", intent_id |-> i,
                                   executed_at |-> now,
                                   executed_price |-> executed_price]>>)
             /\ UNCHANGED enclave_caps

mark_failed_checks(intent) ==
    IF ~(intent.status = STATUS_EXECUTING) THEN Abort(EInvalidStatus)
    ELSE Pass

mark_failed(i, reason) ==
    LET call == [Call("mark_failed", "none", i) EXCEPT !.args = <<reason>>]
        abort == mark_failed_checks(intents[i])
    IN  IF abort # Pass THEN Aborted(call, abort[1])
        ELSE IF registry.active_intents = 0 THEN ArithmeticError(call)
        ELSE /\ intents' = [intents EXCEPT ![i].status = STATUS_FAILED]
             /\ registry' = [registry EXCEPT !.active_intents = @ - 1]
             /\ claimed_at' = [claimed_at EXCEPT ![i] = None]
             /\ Succeeded(call, <<[type |-> "IntentFailed", intent_id |-> i,
                                   failed_at |-> now, reason |-> reason]>>)
             /\ UNCHANGED <<enclave_caps, executions>>

\* Mutant: the assertion is missing.
reset_to_active_checks_NoCheck(intent) == Pass

\* Mutant: the assertion names the wrong status.
reset_to_active_checks_WrongStatus(intent) ==
    IF ~(intent.status = STATUS_ACTIVE) THEN Abort(EInvalidStatus)
    ELSE Pass

reset_to_active_checks(intent) ==
    IF ~(intent.status = STATUS_EXECUTING) THEN Abort(EInvalidStatus)
    ELSE Pass

\* reset_to_active takes neither the clock nor a threshold, and emits no event.
reset_to_active(i) ==
    LET call == Call("reset_to_active", "none", i)
        abort == reset_to_active_checks(intents[i])
    IN  IF abort # Pass THEN Aborted(call, abort[1])
        ELSE /\ intents' = [intents EXCEPT ![i].status = STATUS_ACTIVE]
             /\ claimed_at' = [claimed_at EXCEPT ![i] = None]
             /\ Succeeded(call, << >>)
             /\ UNCHANGED <<registry, enclave_caps, executions>>

\* --------------------------------------------------- admin functions
\* create_enclave_cap is a public function with no check on its caller; the
\* capability it returns is kept by the sender of the transaction.
create_enclave_cap(sender, enclave_pk) ==
    /\ enclave_caps' = enclave_caps \cup {[holder |-> sender, enclave_pk |-> enclave_pk]}
    /\ Succeeded(Call("create_enclave_cap", sender, 0), << >>)
    /\ UNCHANGED <<registry, intents, claimed_at, executions>>

\* --------------------------------------------------------- the clock
Tick ==
    /\ now < MaxTime
    /\ now' = now + 1
    /\ last' = NoCall
    /\ pre' = Snapshot
    /\ UNCHANGED <<registry, intents, enclave_caps, claimed_at, executions,
                   pending, batch, outcome>>
    /\ UNCHANGED <<page_vars, seal_vars>>

\* ------------------------------------------- transactions, one by one
CreateIntent ==
    /\ Len(intents) < MaxIntents
    /\ \E sender \in CreatorInputs, encrypted_data \in EncryptedDataInputs,
          trigger_type \in TriggerTypeInputs, trigger_value \in TriggerValueInputs,
          pair_hash \in PairHashInputs, expires_at \in ExpiresAtInputs :
            create_intent(sender, encrypted_data, trigger_type, trigger_value,
                          pair_hash, expires_at)
    /\ UNCHANGED <<now, pending, batch, outcome>>

CancelIntent ==
    /\ \E sender \in Addrs, i \in IntentIds : cancel_intent(sender, i)
    /\ UNCHANGED <<now, pending, batch, outcome>>

MarkExecuting ==
    /\ \E i \in IntentIds : mark_executing(i)
    /\ UNCHANGED <<now, pending, batch, outcome>>

MarkExecuted ==
    /\ \E i \in IntentIds, executed_price \in PriceInputs, tx_digest \in DigestInputs :
            mark_executed(i, executed_price, tx_digest)
    /\ UNCHANGED <<now, pending, batch, outcome>>

MarkFailed ==
    /\ \E i \in IntentIds, reason \in ReasonInputs : mark_failed(i, reason)
    /\ UNCHANGED <<now, pending, batch, outcome>>

ResetToActive ==
    /\ \E i \in IntentIds : reset_to_active(i)
    /\ UNCHANGED <<now, pending, batch, outcome>>

Next ==
    \/ CreateIntent
    \/ CancelIntent
    \/ MarkExecuting
    \/ MarkExecuted
    \/ MarkFailed
    \/ ResetToActive
    \/ Tick

Spec == Init /\ [][Next]_vars

\* ------------------------------- transactions with varied payloads
\* The same transactions with two values for every field whose content the
\* module stores without reading it.
PayloadInputs == {"ct1", "ct2"}
\* executed_price and tx_digest of one execution report.
ExecutionInputs == {<<95, "tx1">>, <<105, "tx2">>}

CreateIntentWithPayload ==
    /\ Len(intents) < MaxIntents
    /\ \E sender \in CreatorInputs, encrypted_data \in PayloadInputs,
          trigger_type \in {TRIGGER_PRICE_BELOW},
          trigger_value \in TriggerValueInputs, pair_hash \in PairHashInputs,
          expires_at \in {MaxTime} :
            create_intent(sender, encrypted_data, trigger_type, trigger_value,
                          pair_hash, expires_at)
    /\ UNCHANGED <<now, pending, batch, outcome>>

MarkExecutedWithPayload ==
    /\ \E i \in IntentIds, execution \in ExecutionInputs :
            mark_executed(i, execution[1], execution[2])
    /\ UNCHANGED <<now, pending, batch, outcome>>

PayloadNext ==
    \/ CreateIntentWithPayload
    \/ CancelIntent
    \/ MarkExecuting
    \/ MarkExecutedWithPayload
    \/ MarkFailed
    \/ ResetToActive
    \/ Tick

PayloadSpec == Init /\ [][PayloadNext]_vars

\* ------------------------------------------- the recovery sweep
\* An intent is stuck once its claim is StuckThreshold old and not finalized.
ClaimedBefore(i, t) ==
    IF i \in IntentIds
    THEN IF claimed_at[i] # None THEN claimed_at[i][1] <= t ELSE FALSE
    ELSE FALSE

Stuck(i) == ClaimedBefore(i, now - StuckThreshold)

\* The periodic pass that calls reset_to_active on a stuck intent.
RecoverySweep(i) ==
    /\ Stuck(i)
    /\ reset_to_active(i)
    /\ UNCHANGED <<now, pending, batch, outcome>>

\* The registry's functions never read trigger_type after create_intent has
\* checked it, so one valid trigger type is enough where recovery is studied.
CreateClaimableIntent ==
    /\ Len(intents) < MaxIntents
    /\ \E sender \in CreatorInputs, encrypted_data \in EncryptedDataInputs,
          trigger_value \in TriggerValueInputs, pair_hash \in PairHashInputs,
          expires_at \in ExpiresAtInputs :
            create_intent(sender, encrypted_data, TRIGGER_PRICE_BELOW, trigger_value,
                          pair_hash, expires_at)
    /\ UNCHANGED <<now, pending, batch, outcome>>

RecoveryNext ==
    \/ CreateClaimableIntent
    \/ CancelIntent
    \/ MarkExecuting
    \/ MarkExecuted
    \/ MarkFailed
    \/ ResetToActive
    \/ Tick

\* The clock advances, and the sweep reaches every stuck intent.
FairSpec ==
    /\ Init
    /\ [][RecoveryNext]_vars
    /\ WF_vars(Tick)
    /\ \A i \in 1..MaxIntents : WF_vars(RecoverySweep(i))

\* ------------------------------------- transactions in flight
\* Transactions that touch the same shared object are sequenced one after the
\* other, in an order the submitters do not control; each runs atomically.
Tx(op, sender, i) == [op |-> op, sender |-> sender, intent |-> i]

EnclaveOps == {"mark_executing", "mark_executed", "mark_failed", "reset_to_active"}

Execute(tx) ==
    IF tx.op = "cancel_intent" THEN cancel_intent(tx.sender, tx.intent)
    ELSE IF tx.op = "mark_executing" THEN mark_executing(tx.intent)
    ELSE IF tx.op = "mark_executed"
         THEN \E executed_price \in PriceInputs, tx_digest \in DigestInputs :
                 mark_executed(tx.intent, executed_price, tx_digest)
    ELSE IF tx.op = "mark_failed"
         THEN \E reason \in ReasonInputs : mark_failed(tx.intent, reason)
    ELSE reset_to_active(tx.intent)

Submit(txs) ==
    /\ pending = {}
    /\ pending' = txs
    /\ batch' = txs
    /\ outcome' = << >>
    /\ UNCHANGED <<registry, intents, enclave_caps, now, last, pre, claimed_at,
                   executions>>
    /\ UNCHANGED <<page_vars, seal_vars>>

Commit ==
    \E tx \in pending :
        /\ Execute(tx)
        /\ pending' = pending \ {tx}
        /\ outcome' = Append(outcome, [tx |-> tx, effects |-> last'.effects,
                                       code |-> last'.code])
        /\ UNCHANGED <<now, batch>>

\* N coordinators claim the same Active, unexpired intent at once.
SubmitClaims ==
    \E i \in IntentIds, coordinators \in (SUBSET CoordinatorInputs) \ {{}} :
        /\ is_active(intents[i])
        /\ ~is_expired(intents[i], now)
        /\ Submit({Tx("mark_executing", c, i) : c \in coordinators})

\* The owner cancels while a coordinator claims.
SubmitCancelAndClaim ==
    \E i \in IntentIds, c \in CoordinatorInputs :
        /\ is_active(intents[i])
        /\ ~is_expired(intents[i], now)
        /\ Submit({Tx("cancel_intent", get_owner(intents[i]), i),
                   Tx("mark_executing", c, i)})

RaceNext ==
    \/ CreateIntent
    \/ Tick
    \/ SubmitClaims
    \/ SubmitCancelAndClaim
    \/ Commit

RaceSpec == Init /\ [][RaceNext]_vars

\* One coordinator claims an Active, unexpired intent while a coordinator, the
\* same or another, reports the outcome of its execution.
SubmitClaimAndFinalize ==
    \E i \in IntentIds, claimer \in CoordinatorInputs, finalizer \in CoordinatorInputs,
       op \in {"mark_executed", "mark_failed"} :
        /\ is_active(intents[i])
        /\ ~is_expired(intents[i], now)
        /\ Submit({Tx("mark_executing", claimer, i), Tx(op, finalizer, i)})

CoordinatorNext ==
    \/ CreateIntent
    \/ Tick
    \/ SubmitClaimAndFinalize
    \/ Commit

CoordinatorSpec == Init /\ [][CoordinatorNext]_vars

\* One enclave function is called by some sender.
SubmitEnclaveCall ==
    \E i \in IntentIds, sender \in Addrs, op \in EnclaveOps :
        Submit({Tx(op, sender, i)})

CreateEnclaveCap ==
    /\ \E sender \in Addrs, enclave_pk \in EnclavePkInputs :
            create_enclave_cap(sender, enclave_pk)
    /\ UNCHANGED <<now, pending, batch, outcome>>

AuthNext ==
    \/ CreateIntent
    \/ Tick
    \/ CreateEnclaveCap
    \/ SubmitEnclaveCall
    \/ Commit

AuthSpec == Init /\ [][AuthNext]_vars

\* ===================================================================
\* The limit-orders page (app/trade/limit-orders/page.tsx)
\* ===================================================================
OrderTypeInputs == {"limit", "stop-loss", "take-profit"}
SideInputs == {"buy", "sell"}
\* What the trigger-price field parses to: an invalid value and a valid one.
TriggerPriceInputs == {0, 100}
\* What fetchPrice returns for the pair; 0 is also what a failed fetch leaves.
PriceFeedInputs == {0, 95, 100, 105}

\* The on-chain trigger type createOrder computes for an order:
\* 0 (price_below) or 1 (price_above).
triggerType(orderType, side) ==
    IF orderType = "stop-loss" \/ (orderType = "limit" /\ side = "buy")
    THEN 0
    ELSE 1

\* The switch of the trigger check.
shouldTrigger(order, currentPrice) ==
    IF order.type = "limit"
    THEN IF order.side = "buy" THEN currentPrice <= order.triggerPrice
                               ELSE currentPrice >= order.triggerPrice
    ELSE IF order.type = "stop-loss"
    THEN IF order.side = "sell" THEN currentPrice <= order.triggerPrice
                                ELSE currentPrice >= order.triggerPrice
    ELSE IF order.side = "sell" THEN currentPrice >= order.triggerPrice
                                ELSE currentPrice <= order.triggerPrice

\* The function fetchAllPrices maps over the orders.
checkOrder(order, currentPrice) ==
    IF order.status # "pending" THEN order
    ELSE IF currentPrice = 0 THEN order
    ELSE IF shouldTrigger(order, currentPrice)
         THEN [order EXCEPT !.status = "triggered"]
         ELSE order

PageStep(op, price, o) ==
    /\ page_last' = [op |-> op, price |-> price, order |-> o]
    /\ orders_before' = orders
    /\ UNCHANGED <<demo_mode, registry_vars, seal_vars>>

\* One cycle of the 3-second interval.
fetchAllPrices ==
    \E newPrice \in PriceFeedInputs :
        /\ orders' = [o \in DOMAIN orders |-> checkOrder(orders[o], newPrice)]
        /\ PageStep("fetchAllPrices", newPrice, 0)
        /\ UNCHANGED <<mutation, timers>>

\* signAndExecute: the hook holds one mutation; the callbacks given to an
\* earlier call that has not settled are dropped when it is called again.
signAndExecute(request) == mutation' = Some(request)

\* A handler that waits 500 ms in DEMO_MODE before it calls signAndExecute.
AfterDemoDelay(request) ==
    IF demo_mode
    THEN timers' = timers \cup {request} /\ UNCHANGED mutation
    ELSE signAndExecute(request) /\ UNCHANGED timers

InFlightCreates ==
    Cardinality({t \in timers : t.kind = "create"})
      + (IF mutation # None THEN IF mutation[1].kind = "create" THEN 1 ELSE 0 ELSE 0)

NoOrder == [type |-> "none", side |-> "none", triggerPrice |-> 0, status |-> "none"]

createOrder ==
    \E orderType \in OrderTypeInputs, side \in SideInputs, trigger \in TriggerPriceInputs :
        /\ Len(orders) + InFlightCreates < MaxOrders
        /\ IF trigger <= 0
           THEN UNCHANGED <<mutation, timers>>
           ELSE AfterDemoDelay([kind |-> "create", id |-> 0,
                                order |-> [type |-> orderType, side |-> side,
                                           triggerPrice |-> trigger,
                                           status |-> "pending"]])
        /\ PageStep("createOrder", trigger, 0)
        /\ UNCHANGED orders

\* The Cancel button is rendered for an order that is not triggered, in the
\* list of pending and triggered orders.
cancelOrder ==
    \E o \in DOMAIN orders :
        /\ orders[o].status = "pending"
        /\ signAndExecute([kind |-> "cancel", id |-> o, order |-> NoOrder])
        /\ PageStep("cancelOrder", 0, o)
        /\ UNCHANGED <<orders, timers>>

\* The Execute Now button is rendered for a triggered order.
executeOrder ==
    \E o \in DOMAIN orders :
        /\ orders[o].status = "triggered"
        /\ AfterDemoDelay([kind |-> "execute", id |-> o, order |-> NoOrder])
        /\ PageStep("executeOrder", 0, o)
        /\ UNCHANGED orders

\* The 500 ms timeout of a suspended handler ends.
TimeoutEnds ==
    \E request \in timers :
        /\ timers' = timers \ {request}
        /\ signAndExecute(request)
        /\ PageStep("timeout", 0, request.id)
        /\ UNCHANGED orders

setStatus(id, status) ==
    [o \in DOMAIN orders |-> IF o = id THEN [orders[o] EXCEPT !.status = status]
                                       ELSE orders[o]]

\* The transaction of the hook's mutation is confirmed: its onSuccess runs.
onSuccess ==
    /\ mutation # None
    /\ LET request == mutation[1] IN
          /\ orders' = IF request.kind = "create" THEN Append(orders, request.order)
                        ELSE IF request.kind = "cancel"
                        THEN setStatus(request.id, "cancelled")
                        ELSE setStatus(request.id, "filled")
          /\ PageStep(request.kind, 0,
                      IF request.kind = "create" THEN Len(orders) + 1 ELSE request.id)
    /\ mutation' = None
    /\ UNCHANGED timers

\* The transaction fails or is rejected in the wallet: onError only logs.
onError ==
    /\ mutation # None
    /\ mutation' = None
    /\ PageStep("onError", 0, IF mutation[1].kind = "create" THEN 0 ELSE mutation[1].id)
    /\ UNCHANGED <<orders, timers>>

PageInit ==
    /\ RegistryInit
    /\ SealIdle
    /\ demo_mode \in BOOLEAN
    /\ orders = << >>
    /\ mutation = None
    /\ timers = {}
    /\ orders_before = << >>
    /\ page_last = [op |-> "none", price |-> 0, order |-> 0]

PageNext ==
    \/ fetchAllPrices
    \/ createOrder
    \/ cancelOrder
    \/ executeOrder
    \/ TimeoutEnds
    \/ onSuccess
    \/ onError

PageSpec == PageInit /\ [][PageNext]_vars

\* ===================================================================
\* Intent encryption (lib/seal.ts)
\* ===================================================================
\* JSON text is modelled token by token, one byte per token: an object is
\* "{", then per property a byte for its name and a byte for its value, the
\* properties separated by ",", then "}".  Bytes are 0..255.
LeftBrace == 123
RightBrace == 125
Comma == 44

\* The property names of the objects that are serialized, in the order
\* JSON.stringify writes them: IntentData, then version and createdAt; and
\* the metadata of the mock envelope.
PropertyNames ==
    <<"intentId", "pair", "triggerType", "triggerValue", "orderType", "side",
      "quantity", "leverage", "slippageBps", "expiresAt", "version", "createdAt",
      "packageId", "threshold", "keyServers", "timestamp", "mock">>

\* The values each property takes in the inputs below.
PropertyValues ==
    [intentId |-> <<"intent_a", "intent_b">>,
     pair |-> <<"SUI_USDC">>,
     triggerType |-> <<"price_below", "price_above">>,
     triggerValue |-> <<100, 105>>,
     orderType |-> <<"market", "limit">>,
     side |-> <<"buy", "sell">>,
     quantity |-> <<1, 2>>,
     leverage |-> <<3>>,
     slippageBps |-> <<50>>,
     expiresAt |-> <<2000>>,
     version |-> <<1>>,
     createdAt |-> <<1000, 1001>>,
     packageId |-> <<"0x0", "0xpolicy">>,
     threshold |-> <<2>>,
     keyServers |-> <<3, 0>>,
     timestamp |-> <<1000, 1001>>,
     mock |-> <<TRUE>>]

IndexOf(seq, v) == CHOOSE k \in 1..Len(seq) : seq[k] = v

\* JSON.stringify followed by TextEncoder.encode: a property that is absent
\* (undefined) is left out.
RECURSIVE PropertyBytes(_, _)
PropertyBytes(object, k) ==
    IF k > Len(PropertyNames) THEN << >>
    ELSE LET name == PropertyNames[k]
             rest == PropertyBytes(object, k + 1)
         IN  IF name \in DOMAIN object
             THEN <<k, IndexOf(PropertyValues[name], object[name])>>
                    \o (IF rest = << >> THEN << >> ELSE <<Comma>> \o rest)
             ELSE rest

stringify(object) == <<LeftBrace>> \o PropertyBytes(object, 1) \o <<RightBrace>>

\* TextDecoder.decode followed by JSON.parse: None stands for the exception
\* JSON.parse throws on text that is not JSON.
RECURSIVE ParseProperties(_, _, _)
ParseProperties(bytes, pos, object) ==
    IF pos + 1 > Len(bytes) THEN None
    ELSE LET k == bytes[pos]
             v == bytes[pos + 1]
         IN  IF k \notin 1..Len(PropertyNames) THEN None
             ELSE IF v \notin 1..Len(PropertyValues[PropertyNames[k]]) THEN None
             ELSE LET name == PropertyNames[k]
                      next == [n \in DOMAIN object \cup {name} |->
                                  IF n = name THEN PropertyValues[name][v]
                                  ELSE object[n]]
                  IN  IF pos + 2 > Len(bytes) THEN None
                      ELSE IF bytes[pos + 2] = RightBrace
                           THEN IF pos + 2 = Len(bytes) THEN Some(next) ELSE None
                      ELSE IF bytes[pos + 2] = Comma
                           THEN ParseProperties(bytes, pos + 3, next)
                      ELSE None

parse(bytes) ==
    IF Len(bytes) < 2 THEN None
    ELSE IF bytes[1] # LeftBrace THEN None
    ELSE IF bytes[2] = RightBrace
         THEN IF Len(bytes) = 2 THEN Some([n \in {} |-> 0]) ELSE None
    ELSE ParseProperties(bytes, 2, [n \in {} |-> 0])

\* a ^ b on bytes.
RECURSIVE Xor(_, _)
Xor(a, b) ==
    IF a = 0 THEN b
    ELSE IF b = 0 THEN a
    ELSE 2 * Xor(a \div 2, b \div 2) + ((a + b) % 2)

xorCipher(data, key) ==
    [i \in 1..Len(data) |-> Xor(data[i], key[((i - 1) % Len(key)) + 1])]

\* Mutant: the length is written big-endian.
setUint32_BigEndian(value) ==
    <<(value \div 16777216) % 256, (value \div 65536) % 256,
      (value \div 256) % 256, value % 256>>

\* DataView.setUint32(0, value, true) and getUint32(0, true): little-endian.
setUint32(value) ==
    <<value % 256, (value \div 256) % 256, (value \div 65536) % 256,
      (value \div 16777216) % 256>>

\* Mutant: the length is read big-endian.
getUint32_BigEndian(bytes) ==
    bytes[4] + 256 * bytes[3] + 65536 * bytes[2] + 16777216 * bytes[1]

getUint32(bytes) ==
    bytes[1] + 256 * bytes[2] + 65536 * bytes[3] + 16777216 * bytes[4]

\* Uint8Array.slice(start): the bytes from the 0-based index start on.
slice(bytes, start) ==
    IF start >= Len(bytes) THEN << >> ELSE SubSeq(bytes, start + 1, Len(bytes))

\* Number of key servers configured per network.
SEAL_KEY_SERVERS == [testnet |-> 3, mainnet |-> 0]

\* Length of the key generateMockKey returns.
MockKeyLength == 32

\* Two outcomes of generateMockKey.
MockKeyInputs ==
    {[i \in 1..MockKeyLength |-> (37 * i + 11) % 256],
     [i \in 1..MockKeyLength |-> (91 * i + 5) % 256]}

\* Date.now() at the time of the call.
DateNowInputs == {1000, 1001}

\* IntentData: both trigger types, with and without the optional leverage.
IntentDataInputs ==
    LET plain(t) ==
            [intentId |-> "intent_a", pair |-> "SUI_USDC", triggerType |-> t,
             triggerValue |-> 100, orderType |-> "limit", side |-> "buy",
             quantity |-> 2, slippageBps |-> 50, expiresAt |-> 2000]
        leveraged(t) ==
            [intentId |-> "intent_b", pair |-> "SUI_USDC", triggerType |-> t,
             triggerValue |-> 105, orderType |-> "market", side |-> "sell",
             quantity |-> 1, leverage |-> 3, slippageBps |-> 50, expiresAt |-> 2000]
    IN  {plain(t) : t \in {"price_below", "price_above"}}
          \cup {leveraged(t) : t \in {"price_below", "price_above"}}

SealConfigInputs ==
    {[network |-> "testnet", policyPackageId |-> id, enclaveConfigId |-> "0x0",
      threshold |-> 2] : id \in {"0x0", "0xpolicy"}}

\* The object spread {...object, name: value}.
With(object, name, value) ==
    [n \in DOMAIN object \cup {name} |-> IF n = name THEN value ELSE object[n]]

createMockEncryptedObject(plaintext, intentId, config, key, dateNow) ==
    LET ciphertext == xorCipher(plaintext, key)
        metadata == stringify([version |-> 1,
                               intentId |-> intentId,
                               packageId |-> config.policyPackageId,
                               threshold |-> config.threshold,
                               keyServers |-> SEAL_KEY_SERVERS[config.network],
                               timestamp |-> dateNow,
                               mock |-> TRUE])
        metadataLength == setUint32(Len(metadata))
    IN  [encrypted |-> metadataLength \o metadata \o ciphertext, key |-> key]

encryptIntentMock(intent, config, key, dateNow) ==
    LET intentJson == stringify(With(With(intent, "version", 1), "createdAt", dateNow))
        object == createMockEncryptedObject(intentJson, intent.intentId, config,
                                            key, dateNow)
    IN  [encryptedBytes |-> object.encrypted,
         intentId |-> intent.intentId,
         backupKey |-> object.key,
         metadata |-> [pair |-> intent.pair, triggerType |-> intent.triggerType,
                       triggerValue |-> intent.triggerValue,
                       expiresAt |-> intent.expiresAt],
         verification |-> [isRealEncryption |-> FALSE,
                           encryptionMethod |-> "mock",
                           threshold |-> config.threshold,
                           keyServerCount |-> SEAL_KEY_SERVERS[config.network],
                           packageId |-> config.policyPackageId,
                           encryptedSize |-> Len(object.encrypted),
                           timestamp |-> dateNow]]

\* encryptIntentReal warns and returns the mock encryption; it calls no key
\* server.
encryptIntentReal(intent, config, key, dateNow) ==
    encryptIntentMock(intent, config, key, dateNow)

\* USE_REAL_SEAL is fixed by the environment of the build.  The catch branch
\* returns the mock encryption as well.
encryptIntent(intent, config, USE_REAL_SEAL, key, dateNow) ==
    IF USE_REAL_SEAL /\ config.policyPackageId # "0x0"
    THEN encryptIntentReal(intent, config, key, dateNow)
    ELSE encryptIntentMock(intent, config, key, dateNow)

\* null is None.  A buffer shorter than four bytes makes getUint32 throw, which
\* the catch turns into null, as it does the exception of JSON.parse.
decryptMockIntent(encrypted, key) ==
    IF Len(encrypted) < 4 THEN None
    ELSE LET metadataLength == getUint32(encrypted)
             ciphertext == slice(encrypted, 4 + metadataLength)
             plaintext == xorCipher(ciphertext, key)
         IN  parse(plaintext)

\* A caller encrypts an intent; the key servers are reachable or not.
EncryptIntent ==
    \E intent \in IntentDataInputs, config \in SealConfigInputs,
       USE_REAL_SEAL \in BOOLEAN, key \in MockKeyInputs, dateNow \in DateNowInputs,
       key_servers \in {"reachable", "unreachable"} :
        /\ seal_call' = [op |-> "encryptIntent", intent |-> intent,
                         use_real_seal |-> USE_REAL_SEAL, key_servers |-> key_servers,
                         created_at |-> dateNow, key |-> key, error |-> "none",
                         result |-> Some(encryptIntent(intent, config, USE_REAL_SEAL,
                                                      key, dateNow)),
                         decrypted |-> None, checked |-> << >>, valid |-> FALSE]
        /\ UNCHANGED <<registry_vars, page_vars, enclave_configs, approval>>

\* The envelope of the last encryption is decrypted with some key.
DecryptMockIntent ==
    \E key \in MockKeyInputs :
        /\ seal_call.op = "encryptIntent"
        /\ seal_call' = [seal_call EXCEPT
                            !.op = "decryptMockIntent",
                            !.key = key,
                            !.decrypted =
                                decryptMockIntent(seal_call.result[1].encryptedBytes, key)]
        /\ UNCHANGED <<registry_vars, page_vars, enclave_configs, approval>>

SealNext ==
    \/ EncryptIntent
    \/ DecryptMockIntent

SealSpec == Init /\ [][SealNext]_vars

\* Uint8Array.slice(start, end): the bytes from index start up to, not
\* including, index end, both 0-based and clamped to the length.
slice_range(bytes, start, end) ==
    LET to == IF end > Len(bytes) THEN Len(bytes) ELSE end
    IN  IF start >= to THEN << >> ELSE SubSeq(bytes, start + 1, to)

\* The catch branch returns false: JSON.parse is the only call of the body
\* that can throw once the buffer has eight bytes.  typeof metadata.version
\* is 'number' and typeof metadata.intentId is 'string' exactly when the
\* properties are present, every value of PropertyValues having the type of
\* its property.
isValidSealEncryption(encrypted) ==
    IF Len(encrypted) < 8 THEN FALSE
    ELSE LET metadataLength == getUint32(encrypted)
         IN  IF metadataLength > Len(encrypted) - 4 THEN FALSE
             ELSE IF metadataLength < 10 THEN FALSE
             ELSE LET metadataBytes == slice_range(encrypted, 4, 4 + metadataLength)
                      metadata == parse(metadataBytes)
                  IN  IF metadata = None THEN FALSE
                      ELSE /\ "version" \in DOMAIN metadata[1]
                           /\ "intentId" \in DOMAIN metadata[1]

\* Byte strings derived from an envelope: the envelope itself, prefixes of it
\* shorter than eight bytes, and copies whose length prefix is replaced.
EnvelopeInputs(envelope) ==
    {envelope}
      \cup {SubSeq(envelope, 1, n) : n \in {0, 3, 7}}
      \cup {setUint32(n) \o slice(envelope, 4) :
                n \in {0, 9, Len(envelope) - 4, Len(envelope) - 3}}

\* A caller checks a byte string before it spends a create-intent call on it.
IsValidSealEncryption ==
    /\ seal_call.op = "encryptIntent"
    /\ \E encrypted \in EnvelopeInputs(seal_call.result[1].encryptedBytes) :
          seal_call' = [seal_call EXCEPT
                           !.op = "isValidSealEncryption",
                           !.checked = encrypted,
                           !.valid = isValidSealEncryption(encrypted)]
    /\ UNCHANGED <<registry_vars, page_vars, enclave_configs, approval>>

EnvelopeNext ==
    \/ EncryptIntent
    \/ IsValidSealEncryption

EnvelopeSpec == Init /\ [][EnvelopeNext]_vars

\* ------------------------------------------------- the client's clock
\* calculateExpiry and isIntentExpired read Date.now(), in milliseconds.
calculateExpiry(hours, dateNow) ==
    LET expiryMs == dateNow + hours * 60 * 60 * 1000
    IN  expiryMs \div 1000

isIntentExpired(expiresAt, dateNow) ==
    LET seconds == dateNow \div 1000
    IN  expiresAt < seconds

HoursInputs == {1, 24}

\* Instants of the chain clock, in milliseconds: half an hour after the
\* start, and one of the magnitude of Date.now() that fits 32 bits.
ClockInputs == {1800000, 1700000000}

\* The chain clock moves on to a later instant.
Elapse ==
    /\ \E t \in ClockInputs : t > now /\ now' = t
    /\ last' = NoCall
    /\ pre' = Snapshot
    /\ UNCHANGED <<registry, intents, enclave_caps, claimed_at, executions,
                   pending, batch, outcome>>
    /\ UNCHANGED <<page_vars, seal_vars>>

\* buildCreateIntentTx passes expiresAt to create_intent as its u64 argument;
\* the client takes it from calculateExpiry at the instant of the call.
CreateIntentWithCalculatedExpiry ==
    /\ Len(intents) < MaxIntents
    /\ \E sender \in CreatorInputs, encrypted_data \in EncryptedDataInputs,
          trigger_type \in TriggerTypeInputs, trigger_value \in TriggerValueInputs,
          pair_hash \in PairHashInputs, hours \in HoursInputs :
            create_intent(sender, encrypted_data, trigger_type, trigger_value,
                          pair_hash, calculateExpiry(hours, now))
    /\ UNCHANGED <<now, pending, batch, outcome>>

ClientNext ==
    \/ CreateIntentWithCalculatedExpiry
    \/ CancelIntent
    \/ MarkExecuting
    \/ MarkExecuted
    \/ MarkFailed
    \/ Elapse

ClientSpec == Init /\ [][ClientNext]_vars

\* ===================================================================
\* The decryption policy (seal_policy::intent)
\* ===================================================================
EInvalidId == 0
seal_policy_EInvalidSignature == 1
ESenderMismatch == 2
ETimestampExpired == 3

PublicKeyInputs == {"pk_enclave", "pk_other"}
\* id: the empty vector, one byte, two bytes.
IdInputs == {<< >>, <<7>>, <<7, 1>>}
\* timestamp: a value in the lowest byte and one in the second byte.
TimestampInputs == {1, 256}

\* Byte n of a u64, byte 0 the least significant.
RECURSIVE ByteOf(_, _)
ByteOf(value, n) == IF n = 0 THEN value % 256 ELSE ByteOf(value \div 256, n - 1)

\* Mutant: the timestamp is appended most significant byte first.
seal_approve_message_BigEndian(id, timestamp) ==
    id \o [k \in 1..8 |-> ByteOf(timestamp, 8 - k)]

\* The loop that appends the timestamp: eight times the low byte of ts,
\* then ts >> 8.
RECURSIVE append_timestamp(_, _, _)
append_timestamp(message, ts, i) ==
    IF i < 8
    THEN append_timestamp(Append(message, ts % 256), ts \div 256, i + 1)
    ELSE message

\* The message seal_approve verifies the signature over: id || timestamp.
seal_approve_message(id, timestamp) == append_timestamp(id, timestamp, 0)

\* Ed25519 as an ideal signature scheme: a signature names the key pair that
\* made it and the message it was made over, and verifies for those only.
Sign(public_key, message) == [signer |-> public_key, message |-> message]

ed25519_verify(signature, public_key, message) ==
    signature.signer = public_key /\ signature.message = message

\* Signatures by either key over id || timestamp with the timestamp in
\* little-endian byte order, and for the one-byte id in big-endian order too.
SignatureInputs ==
    {Sign(pk, m) :
        pk \in PublicKeyInputs,
        m \in {seal_approve_message(id, ts) : id \in IdInputs, ts \in TimestampInputs}
              \cup {<<7>> \o [k \in 1..8 |-> ByteOf(ts, 8 - k)] :
                        ts \in TimestampInputs}}

seal_approve_checks(id, enclave_config, signature, wallet_pk, timestamp) ==
    IF ~(Len(id) > 0) THEN Abort(EInvalidId)
    ELSE IF ~(wallet_pk = enclave_config.enclave_pk) THEN Abort(ESenderMismatch)
    ELSE IF ~ed25519_verify(signature, enclave_config.enclave_pk,
                            seal_approve_message(id, timestamp))
         THEN Abort(seal_policy_EInvalidSignature)
    ELSE Pass

\* seal_approve reads the configuration and writes nothing; the sender of the
\* transaction is not looked at.
seal_approve(sender, id, c, signature, wallet_pk, timestamp) ==
    LET abort == seal_approve_checks(id, enclave_configs[c], signature, wallet_pk,
                                     timestamp)
    IN  /\ approval' = [op |-> "seal_approve", sender |-> sender, id |-> id,
                        config |-> c, signature |-> signature,
                        wallet_pk |-> wallet_pk, timestamp |-> timestamp,
                        effects |-> IF abort = Pass THEN "success" ELSE "abort",
                        code |-> IF abort = Pass THEN 0 ELSE abort[1]]
        /\ UNCHANGED enclave_configs

register_enclave(enclave_pk, name, pcr0) ==
    [enclave_pk |-> enclave_pk, name |-> name, pcr0 |-> pcr0]

\* Any sender may create and share a configuration.
create_and_share_enclave_config(sender, enclave_pk, name, pcr0) ==
    /\ enclave_configs' = Append(enclave_configs, register_enclave(enclave_pk, name, pcr0))
    /\ approval' = [NoApproval EXCEPT !.op = "create_and_share_enclave_config",
                                      !.sender = sender,
                                      !.config = Len(enclave_configs) + 1,
                                      !.effects = "success"]

CreateAndShareEnclaveConfig ==
    /\ Len(enclave_configs) < MaxConfigs
    /\ \E sender \in Addrs, enclave_pk \in PublicKeyInputs :
          create_and_share_enclave_config(sender, enclave_pk, "enclave", "pcr0")
    /\ UNCHANGED <<registry_vars, page_vars, seal_call>>

SealApprove ==
    /\ \E sender \in Addrs, id \in IdInputs, c \in DOMAIN enclave_configs,
          signature \in SignatureInputs, wallet_pk \in PublicKeyInputs,
          timestamp \in TimestampInputs :
            seal_approve(sender, id, c, signature, wallet_pk, timestamp)
    /\ UNCHANGED <<registry_vars, page_vars, seal_call>>

PolicyNext ==
    \/ CreateAndShareEnclaveConfig
    \/ SealApprove

PolicySpec == Init /\ [][PolicyNext]_vars

\* ===================================================================
\* Properties
\* ===================================================================
\* The intent the last transaction was about, before and after it.
Before(i) == pre.intents[i]
Known(i) == i \in 1..Len(pre.intents) /\ i \in IntentIds
Rolled == intents = pre.intents /\ registry = pre.registry
OthersUntouched(i) ==
    /\ Len(intents) = Len(pre.intents)
    /\ \A j \in IntentIds : j # i => intents[j] = pre.intents[j]
Successes == {k \in 1..Len(outcome) : outcome[k].effects = "success"}

StatusEdges ==
    {<<STATUS_ACTIVE, STATUS_EXECUTING>>, <<STATUS_EXECUTING, STATUS_EXECUTED>>,
     <<STATUS_EXECUTING, STATUS_FAILED>>, <<STATUS_EXECUTING, STATUS_ACTIVE>>,
     <<STATUS_ACTIVE, STATUS_CANCELLED>>}

\* C1: every transaction leaves the status of each intent as it was or moves it
\* along one of Active->Executing, Executing->Executed, Executing->Failed,
\* Executing->Active, Active->Cancelled; a new intent starts Active.
C1_StatusGraph ==
    /\ Len(pre.intents) <= Len(intents)
    /\ \A i \in IntentIds :
          IF i <= Len(pre.intents)
          THEN \/ intents[i].status = Before(i).status
               \/ <<Before(i).status, intents[i].status>> \in StatusEdges
          ELSE intents[i].status = STATUS_ACTIVE

\* C1 witness: the recovery edge Executing->Active has just been taken.
C1_Witness ==
    \E i \in IntentIds :
        /\ Known(i)
        /\ Before(i).status = STATUS_EXECUTING
        /\ intents[i].status = STATUS_ACTIVE

\* C3: cancel_intent succeeds exactly when the sender is the owner and the
\* status is Active, and then sets Cancelled and takes one off active_intents;
\* otherwise it aborts (ENotOwner for a non-owner, EInvalidStatus for the owner
\* of a non-Active intent) and the intents and the counters are as before.
C3_CancelContract ==
    last.op = "cancel_intent" =>
        LET i == last.intent IN
        IF last.sender = Before(i).owner /\ Before(i).status = STATUS_ACTIVE
        THEN /\ last.effects = "success"
             /\ intents[i] = [Before(i) EXCEPT !.status = STATUS_CANCELLED]
             /\ OthersUntouched(i)
             /\ registry = [pre.registry EXCEPT !.active_intents = @ - 1]
        ELSE /\ last.effects = "abort"
             /\ last.code = IF last.sender # Before(i).owner THEN ENotOwner
                            ELSE EInvalidStatus
             /\ Rolled

\* C3 witness: the owner's cancel of a non-Active intent has been rejected.
C3_Witness ==
    /\ last.op = "cancel_intent"
    /\ last.effects = "abort"
    /\ last.code = EInvalidStatus
    /\ last.sender = intents[last.intent].owner

\* C4: no intent enters Executing at a time at or after its expires_at, and
\* mark_executing on an Active intent with expires_at <= now aborts with
\* EIntentExpired and leaves it Active.
C4_NoClaimWhenExpired ==
    /\ \A i \in IntentIds :
          (Known(i) /\ intents[i].status = STATUS_EXECUTING
                    /\ Before(i).status # STATUS_EXECUTING)
             => intents[i].expires_at > now
    /\ (last.op = "mark_executing" /\ Before(last.intent).status = STATUS_ACTIVE
                                   /\ Before(last.intent).expires_at <= now)
         => /\ last.effects = "abort"
            /\ last.code = EIntentExpired
            /\ intents[last.intent].status = STATUS_ACTIVE
            /\ Rolled

\* C4 witness: a claim of an Active intent was rejected as expired at the
\* boundary expires_at = now.
C4_Witness ==
    /\ last.op = "mark_executing"
    /\ last.effects = "abort"
    /\ last.code = EIntentExpired
    /\ intents[last.intent].expires_at = now

\* C7: per intent, mark_executed succeeds at most once and only on a claimed
\* intent; executed_at, executed_price and tx_digest, once written, are never
\* written again; executed_intents counts each executed intent once.
C7_AtMostOnce ==
    /\ \A i \in IntentIds : executions[i] <= 1
    /\ registry.executed_intents = Cardinality({i \in IntentIds : executions[i] >= 1})
    /\ \A i \in IntentIds :
          (Known(i) /\ Before(i).executed_at # None)
             => /\ intents[i].executed_at = Before(i).executed_at
                /\ intents[i].executed_price = Before(i).executed_price
                /\ intents[i].tx_digest = Before(i).tx_digest
    /\ (last.op = "mark_executed" /\ last.effects = "success")
          => /\ Before(last.intent).status = STATUS_EXECUTING
             /\ pre.executions[last.intent] = 0
             /\ registry.executed_intents = pre.registry.executed_intents + 1

\* C7 witness: a second mark_executed on an executed intent has been rejected.
C7_Witness ==
    /\ last.op = "mark_executed"
    /\ last.effects = "abort"
    /\ executions[last.intent] = 1
    /\ intents[last.intent].executed_at # None

\* C9 as claimed: reset_to_active on an Executing intent whose claim is
\* younger than the stuck threshold is rejected and leaves it Executing, and
\* on an intent that is not Executing it aborts with EInvalidStatus.
C9_NotStuckRejected ==
    last.op = "reset_to_active" =>
        LET i == last.intent IN
        IF Before(i).status = STATUS_EXECUTING
        THEN (now - pre.claimed_at[i][1] < StuckThreshold)
                => (last.effects = "abort" /\ intents[i].status = STATUS_EXECUTING)
        ELSE last.effects = "abort" /\ last.code = EInvalidStatus

\* C10: create_intent aborts when expires_at <= now (EIntentExpired) and when
\* trigger_type is neither kind (EInvalidTriggerType), creating nothing;
\* otherwise it adds one Active intent owned by the sender, created now, before
\* its expiry, with empty execution fields, and adds one to total_intents and
\* to active_intents.
C10_CreateContract ==
    last.op = "create_intent" =>
        IF last.expires_at <= now
           \/ last.trigger_type \notin {TRIGGER_PRICE_BELOW, TRIGGER_PRICE_ABOVE}
        THEN /\ last.effects = "abort"
             /\ last.code = IF last.expires_at <= now THEN EIntentExpired
                            ELSE EInvalidTriggerType
             /\ Rolled
        ELSE /\ last.effects = "success"
             /\ Len(intents) = Len(pre.intents) + 1
             /\ SubSeq(intents, 1, Len(pre.intents)) = pre.intents
             /\ last.intent = Len(intents)
             /\ LET new == intents[Len(intents)] IN
                   /\ new.status = STATUS_ACTIVE
                   /\ new.owner = last.sender
                   /\ new.created_at = now
                   /\ new.created_at < new.expires_at
                   /\ new.expires_at = last.expires_at
                   /\ new.trigger_type = last.trigger_type
                   /\ new.executed_at = None
                   /\ new.executed_price = None
                   /\ new.tx_digest = None
             /\ registry = [pre.registry EXCEPT !.total_intents = @ + 1,
                                                !.active_intents = @ + 1]

\* C10 witness: a create with an unknown trigger_type and a valid expiry has
\* been rejected.
C10_Witness ==
    /\ last.op = "create_intent"
    /\ last.effects = "abort"
    /\ last.code = EInvalidTriggerType
    /\ last.expires_at > now

RecoveryContract ==
    /\ (last.op = "reset_to_active" /\ Before(last.intent).status = STATUS_EXECUTING)
          => /\ last.effects = "success"
             /\ intents[last.intent] = [Before(last.intent) EXCEPT !.status = STATUS_ACTIVE]
             /\ OthersUntouched(last.intent)
             /\ registry = pre.registry
    /\ (last.op = "mark_executing" /\ Before(last.intent).status = STATUS_ACTIVE
                                   /\ Before(last.intent).expires_at > now)
          => /\ last.effects = "success"
             /\ intents[last.intent].status = STATUS_EXECUTING
    /\ (last.op = "mark_executed" /\ Before(last.intent).status = STATUS_EXECUTING)
          => /\ last.effects = "success"
             /\ intents[last.intent].status = STATUS_EXECUTED
    /\ (last.op = "mark_failed" /\ Before(last.intent).status = STATUS_EXECUTING)
          => /\ last.effects = "success"
             /\ intents[last.intent].status = STATUS_FAILED

NotExecuting(i) == IF i \in IntentIds THEN intents[i].status # STATUS_EXECUTING ELSE FALSE

C2_ExclusiveClaim ==
    /\ Cardinality(Successes) <= 1 \/ \E tx \in batch : tx.op # "mark_executing"
    /\ (/\ batch # {}
        /\ \A tx \in batch : tx.op = "mark_executing"
        /\ pending = {}
        /\ \A tx \in batch : intents[tx.intent].expires_at > now)
         => /\ Len(outcome) = Cardinality(batch)
            /\ Cardinality(Successes) = 1
            /\ \A k \in 1..Len(outcome) :
                  k \notin Successes
                     => outcome[k].effects = "abort" /\ outcome[k].code = EAlreadyExecuting
            /\ \A tx \in batch : intents[tx.intent].status = STATUS_EXECUTING

\* C2 witness: three concurrent claims, all sequenced: one won, two lost.
C2_Witness ==
    /\ Cardinality(batch) = 3
    /\ \A tx \in batch : tx.op = "mark_executing"
    /\ pending = {}
    /\ Cardinality(Successes) = 1
    /\ Len(outcome) = 3

\* C6: when the owner's cancel and a claim submitted together on an Active
\* intent have both been sequenced, and its expiry is still ahead, the first
\* sequenced succeeded and decides the status (Cancelled or Executing), the
\* second aborted with the status error of its function (EAlreadyExecuting for
\* the claim, EInvalidStatus for the cancel), and an aborted transaction left
\* intents and counters as they were.
C6_CancelClaimRace ==
    /\ (last.effects = "abort" /\ outcome # << >>) => Rolled
    /\ (/\ \E tx \in batch : tx.op = "cancel_intent"
        /\ pending = {}
        /\ \A tx \in batch : intents[tx.intent].expires_at > now)
         => /\ Len(outcome) = 2
            /\ outcome[1].effects = "success"
            /\ outcome[2].effects = "abort"
            /\ IF outcome[1].tx.op = "cancel_intent"
               THEN /\ intents[outcome[1].tx.intent].status = STATUS_CANCELLED
                    /\ outcome[2].tx.op = "mark_executing"
                    /\ outcome[2].code = EAlreadyExecuting
               ELSE /\ intents[outcome[1].tx.intent].status = STATUS_EXECUTING
                    /\ outcome[2].tx.op = "cancel_intent"
                    /\ outcome[2].code = EInvalidStatus

\* C6 witness: the claim was sequenced first and the owner's cancel lost.
C6_Witness ==
    /\ Len(outcome) = 2
    /\ pending = {}
    /\ outcome[1].tx.op = "mark_executing"
    /\ outcome[1].effects = "success"
    /\ outcome[2].tx.op = "cancel_intent"
    /\ outcome[2].effects = "abort"

\* The holders of an EnclaveCap.
EnclaveIdentities == {cap.holder : cap \in enclave_caps}

\* C5 as claimed: a call of mark_executing, mark_executed, mark_failed or
\* reset_to_active by a sender that is not the registered enclave identity
\* aborts.
C5_OnlyEnclave ==
    \A k \in 1..Len(outcome) :
        (outcome[k].tx.op \in EnclaveOps /\ outcome[k].tx.sender \notin EnclaveIdentities)
            => outcome[k].effects = "abort"

\* ----------------------------------------------- finalization and data
EventTimeFields == {"timestamp", "cancelled_at", "executed_at", "failed_at"}
WriteOps == {"create_intent", "cancel_intent", "mark_executing", "mark_executed",
             "mark_failed", "reset_to_active"}
ExecutionFieldsSet(intent) ==
    /\ intent.executed_at # None
    /\ intent.executed_price # None
    /\ intent.tx_digest # None
ExecutionFieldsEmpty(intent) ==
    /\ intent.executed_at = None
    /\ intent.executed_price = None
    /\ intent.tx_digest = None

\* C11: mark_executed on an intent that is not Executing aborts with
\* EInvalidStatus and changes nothing; on an Executing intent it succeeds, sets
\* Executed, executed_at to the clock, executed_price and tx_digest to the
\* arguments, takes one off active_intents and adds one to executed_intents,
\* and touches nothing else.
C11_FinalizeSuccess ==
    last.op = "mark_executed" =>
        LET i == last.intent IN
        IF Before(i).status # STATUS_EXECUTING
        THEN /\ last.effects = "abort"
             /\ last.code = EInvalidStatus
             /\ Rolled
        ELSE /\ last.effects = "success"
             /\ intents[i] = [Before(i) EXCEPT !.status = STATUS_EXECUTED,
                                               !.executed_at = Some(now),
                                               !.executed_price = Some(last.args[1]),
                                               !.tx_digest = Some(last.args[2])]
             /\ OthersUntouched(i)
             /\ registry = [pre.registry EXCEPT !.active_intents = @ - 1,
                                                !.executed_intents = @ + 1]

\* C11 witness: an Executing intent has been finalized after the clock moved,
\* with the second of the two execution reports.
C11_Witness ==
    /\ last.op = "mark_executed"
    /\ last.effects = "success"
    /\ now > 0
    /\ last.args = <<105, "tx2">>
    /\ intents[last.intent].executed_price = Some(105)

\* C12: mark_failed on an intent that is not Executing aborts with
\* EInvalidStatus and changes nothing; on an Executing intent it succeeds, sets
\* Failed and takes one off active_intents; and no transaction changes a Failed
\* intent.
C12_FinalizeFailure ==
    /\ last.op = "mark_failed" =>
          LET i == last.intent IN
          IF Before(i).status # STATUS_EXECUTING
          THEN /\ last.effects = "abort"
               /\ last.code = EInvalidStatus
               /\ Rolled
          ELSE /\ last.effects = "success"
               /\ intents[i] = [Before(i) EXCEPT !.status = STATUS_FAILED]
               /\ OthersUntouched(i)
               /\ registry = [pre.registry EXCEPT !.active_intents = @ - 1]
    /\ \A i \in IntentIds :
          (Known(i) /\ Before(i).status = STATUS_FAILED) => intents[i] = Before(i)
    /\ (last.op \in WriteOps /\ last.intent \in 1..Len(pre.intents)
            /\ Before(last.intent).status = STATUS_FAILED)
          => last.effects = "abort"

\* C12 witness: a recovery of a Failed intent has been rejected.
C12_Witness ==
    /\ last.op = "reset_to_active"
    /\ last.effects = "abort"
    /\ intents[last.intent].status = STATUS_FAILED

\* C13: executed_at, executed_price and tx_digest are all set exactly on the
\* Executed intents, and all empty on every Active, Executing, Cancelled or
\* Failed intent.
C13_ExecutionFields ==
    \A i \in IntentIds :
        /\ ExecutionFieldsSet(intents[i]) <=> intents[i].status = STATUS_EXECUTED
        /\ intents[i].status \in {STATUS_ACTIVE, STATUS_EXECUTING, STATUS_CANCELLED,
                                  STATUS_FAILED}
              => ExecutionFieldsEmpty(intents[i])

\* C13 witness: an Executed intent, and a call on it after its execution.
C13_Witness ==
    /\ last.op \in {"cancel_intent", "mark_executing", "mark_failed", "reset_to_active"}
    /\ intents[last.intent].status = STATUS_EXECUTED
    /\ ExecutionFieldsSet(intents[last.intent])

\* C14: no transaction changes the encrypted_data of an existing intent, and
\* a new intent holds the encrypted_data that create_intent was given.
C14_PayloadWriteOnce ==
    \A i \in IntentIds :
        IF i <= Len(pre.intents)
        THEN intents[i].encrypted_data = Before(i).encrypted_data
        ELSE /\ last.op = "create_intent"
             /\ intents[i].encrypted_data = last.args[1]

\* C14 witness: an intent created with the second payload has been claimed and
\* finalized, and still holds it.
C14_Witness ==
    /\ last.op = "mark_executed"
    /\ last.effects = "success"
    /\ intents[last.intent].encrypted_data = "ct2"

\* C20 as claimed: a successful create, cancel, claim, finalization or
\* recovery emits exactly one event, which carries the intent id and a
\* timestamp of the operation, and an aborted one emits none.
C20_OneEventPerWrite ==
    last.op \in WriteOps =>
        IF last.effects = "success"
        THEN /\ Len(last.events) = 1
             /\ last.events[1].intent_id = last.intent
             /\ DOMAIN last.events[1] \cap EventTimeFields # {}
        ELSE last.events = << >>

\* The part of C20 the module meets: a successful cancel, claim or
\* finalization emits exactly one event with the intent id and the time of
\* the clock, a successful create one IntentCreated event with the intent id,
\* and an aborted transaction none.
EventsOfTheCode ==
    last.op \in WriteOps \ {"reset_to_active"} =>
        IF last.effects = "success"
        THEN /\ Len(last.events) = 1
             /\ last.events[1].intent_id = last.intent
             /\ last.op # "create_intent" =>
                    \E f \in DOMAIN last.events[1] \cap EventTimeFields :
                        last.events[1][f] = now
        ELSE last.events = << >>

\* ------------------------------------------------ the limit-orders page
\* C15 as claimed: in a polling cycle a pending order becomes triggered exactly
\* when the price is at or below its trigger price, for an order whose trigger
\* type is price_below, and at or above it for price_above.
C15_BoundaryInclusive ==
    page_last.op = "fetchAllPrices" =>
        \A o \in DOMAIN orders :
            orders_before[o].status = "pending" =>
                (orders[o].status = "triggered" <=>
                    IF triggerType(orders[o].type, orders[o].side) = 0
                    THEN page_last.price <= orders[o].triggerPrice
                    ELSE page_last.price >= orders[o].triggerPrice)

\* The part of C15 the page meets: with a price other than 0, a pending order
\* whose trigger price equals the price is triggered whatever its type and
\* side, and a limit order is triggered exactly as its trigger type says.
BoundaryTriggers ==
    (page_last.op = "fetchAllPrices" /\ page_last.price # 0) =>
        \A o \in DOMAIN orders :
            orders_before[o].status = "pending" =>
                /\ page_last.price = orders[o].triggerPrice
                      => orders[o].status = "triggered"
                /\ orders[o].type = "limit" =>
                      (orders[o].status = "triggered" <=>
                          IF triggerType(orders[o].type, orders[o].side) = 0
                          THEN page_last.price <= orders[o].triggerPrice
                          ELSE page_last.price >= orders[o].triggerPrice)

\* C16 as claimed, for the page: no handler of the page changes an order that
\* is cancelled.
C16_CancelledIsFinal ==
    \A o \in DOMAIN orders_before :
        orders_before[o].status = "cancelled" => orders[o].status = "cancelled"

\* The parts of C16 that hold: a polling cycle never changes a cancelled
\* order, and no transaction changes a Cancelled intent of the registry.
PollSkipsCancelled ==
    page_last.op = "fetchAllPrices" =>
        \A o \in DOMAIN orders_before :
            orders_before[o].status = "cancelled" => orders[o] = orders_before[o]

CancelledIntentIsFinal ==
    \A i \in IntentIds :
        (Known(i) /\ Before(i).status = STATUS_CANCELLED) => intents[i] = Before(i)

\* ------------------------------------------------------ lib/seal.ts
\* C17 as claimed: when the key servers cannot be reached, encryptIntent fails
\* with EncryptionUnavailable and returns no envelope.
C17_FailsClosed ==
    (seal_call.op = "encryptIntent" /\ seal_call.key_servers = "unreachable")
        => /\ seal_call.error = "EncryptionUnavailable"
           /\ seal_call.result = None

\* What encryptIntent does instead, on every path: it returns the mock
\* envelope, XOR under a key generated locally, together with that key.
AlwaysMockEnvelope ==
    seal_call.op = "encryptIntent" =>
        /\ seal_call.result # None
        /\ seal_call.result[1].verification.encryptionMethod = "mock"
        /\ seal_call.result[1].verification.isRealEncryption = FALSE
        /\ seal_call.result[1].backupKey = seal_call.key

RoundTripDone ==
    /\ seal_call.op = "decryptMockIntent"
    /\ seal_call.key = seal_call.result[1].backupKey

C19_ApprovalContract ==
    approval.op = "seal_approve" =>
        LET id == approval.id
            config == enclave_configs[approval.config]
            message == approval.signature.message
            signed ==
                /\ approval.signature.signer = config.enclave_pk
                /\ Len(message) = Len(id) + 8
                /\ SubSeq(message, 1, Len(id)) = id
                /\ \A k \in 1..8 :
                      message[Len(id) + k] = ByteOf(approval.timestamp, k - 1)
        IN  IF Len(id) = 0
            THEN approval.effects = "abort" /\ approval.code = EInvalidId
            ELSE IF approval.wallet_pk # config.enclave_pk
            THEN approval.effects = "abort" /\ approval.code = ESenderMismatch
            ELSE IF ~signed
            THEN approval.effects = "abort"
                 /\ approval.code = seal_policy_EInvalidSignature
            ELSE approval.effects = "success"

\* C19 witness: an approval has been granted for a two-byte id and a
\* timestamp above 255.
C19_Witness ==
    /\ approval.op = "seal_approve"
    /\ approval.effects = "success"
    /\ Len(approval.id) = 2
    /\ approval.timestamp = 256

\* ------------------------------------------- identities and expiry
\* C21 as claimed: at most one enclave capability ever exists.
C21_SingleEnclaveIdentity == Cardinality(enclave_caps) <= 1

\* C22 as claimed: no transaction changes the status of an Active intent whose
\* expires_at has passed, nor the counters of the registry when it is called
\* on such an intent.
C22_ExpiredIsTerminal ==
    \A i \in IntentIds :
        (Known(i) /\ Before(i).status = STATUS_ACTIVE /\ Before(i).expires_at <= now)
            => /\ intents[i].status = STATUS_ACTIVE
               /\ last.intent = i => registry = pre.registry

\* The part of C22 the module meets: an Active intent whose expires_at has
\* passed is never claimed, finalized or reset; only cancel_intent by its
\* owner still changes it.
ExpiredOnlyCancellable ==
    \A i \in IntentIds :
        (Known(i) /\ Before(i).status = STATUS_ACTIVE /\ Before(i).expires_at <= now)
            => \/ intents[i] = Before(i)
               \/ /\ last.op = "cancel_intent"
                  /\ last.sender = Before(i).owner
                  /\ intents[i].status = STATUS_CANCELLED

CountOf(statuses) == Cardinality({i \in IntentIds : intents[i].status \in statuses})

\* C23: total_intents is the number of intents created, active_intents the
\* number of Active and Executing intents, executed_intents the number of
\* Executed intents; no transaction ends in an arithmetic error; and the
\* counters change only in a transaction that creates an intent or changes the
\* status of one, never in mark_executing or reset_to_active.
C23_Counters ==
    /\ registry.total_intents = Len(intents)
    /\ registry.active_intents = CountOf({STATUS_ACTIVE, STATUS_EXECUTING})
    /\ registry.executed_intents = CountOf({STATUS_EXECUTED})
    /\ last.effects # "arithmetic_error"
    /\ registry # pre.registry =>
          /\ last.effects = "success"
          /\ last.op \in {"create_intent", "cancel_intent", "mark_executed", "mark_failed"}
          /\ \/ Len(intents) = Len(pre.intents) + 1
             \/ intents[last.intent].status # Before(last.intent).status
    /\ last.op \in {"mark_executing", "reset_to_active"} => registry = pre.registry

\* C23 witness: the last counted intent has just left the active count through
\* mark_failed, which brings active_intents to zero.
C23_Witness ==
    /\ last.op = "mark_failed"
    /\ last.effects = "success"
    /\ pre.registry.active_intents = 1
    /\ registry.active_intents = 0
    /\ registry.total_intents >= 1

\* C24 as claimed: a mark_executed or mark_failed succeeds only when the
\* coordinator that sends it is the one whose claim of the intent succeeded
\* before it.
C24_ClaimantFinalizes ==
    \A k \in 1..Len(outcome) :
        (outcome[k].effects = "success"
            /\ outcome[k].tx.op \in {"mark_executed", "mark_failed"})
          => \E j \in 1..(k - 1) :
                /\ outcome[j].effects = "success"
                /\ outcome[j].tx.op = "mark_executing"
                /\ outcome[j].tx.intent = outcome[k].tx.intent
                /\ outcome[j].tx.sender = outcome[k].tx.sender

\* The part of C24 the module meets: a finalization succeeds only after a
\* claim of the same intent has succeeded, whoever sent either.
FinalizeFollowsClaim ==
    \A k \in 1..Len(outcome) :
        (outcome[k].effects = "success"
            /\ outcome[k].tx.op \in {"mark_executed", "mark_failed"})
          => \E j \in 1..(k - 1) :
                /\ outcome[j].effects = "success"
                /\ outcome[j].tx.op = "mark_executing"
                /\ outcome[j].tx.intent = outcome[k].tx.intent

\* C26: cancel_intent sent by anyone but the owner aborts with ENotOwner and
\* changes nothing, whatever the status of the intent and whether or not its
\* expiry has passed: the outcome does not depend on the status.
C26_NonOwnerCancel ==
    (last.op = "cancel_intent" /\ last.sender # Before(last.intent).owner)
        => /\ last.effects = "abort"
           /\ last.code = ENotOwner
           /\ Rolled

\* C26 witness: a non-owner's cancel of an Executed intent, after its expiry,
\* has been rejected with ENotOwner.
C26_Witness ==
    /\ last.op = "cancel_intent"
    /\ last.sender # intents[last.intent].owner
    /\ last.effects = "abort"
    /\ last.code = ENotOwner
    /\ intents[last.intent].status = STATUS_EXECUTED
    /\ intents[last.intent].expires_at <= now

\* ------------------------------------------------------------ replay
\* C25 as claimed: an (id, timestamp, signature) triple that seal_approve has
\* approved is not approved again in a later transaction.
C25_NoReplay ==
    [][~(/\ approval.op = "seal_approve"
         /\ approval.effects = "success"
         /\ approval'.op = "seal_approve"
         /\ approval'.effects = "success"
         /\ approval'.id = approval.id
         /\ approval'.timestamp = approval.timestamp
         /\ approval'.signature = approval.signature)]_vars

\* What the module does with the timestamp: no call of seal_approve ever ends
\* with ETimestampExpired.
TimestampNeverChecked ==
    approval.op = "seal_approve" => approval.code # ETimestampExpired

\* --------------------------------------------- lib/seal.ts, continued
\* The plaintext payload inside the envelope an encryption returned.
PlaintextOf(call) ==
    LET encrypted == call.result[1].encryptedBytes
    IN  xorCipher(slice(encrypted, 4 + getUint32(encrypted)), call.result[1].backupKey)

\* C27 as claimed: two successive encodings of the same intent have the same
\* plaintext payload, byte for byte.
C27_Deterministic ==
    [][(/\ seal_call.op = "encryptIntent"
        /\ seal_call'.op = "encryptIntent"
        /\ seal_call'.intent = seal_call.intent)
          => PlaintextOf(seal_call') = PlaintextOf(seal_call)]_vars

\* What holds instead: encodings of the same intent made at the same
\* Date.now() have the same plaintext payload.
DeterministicAtOneInstant ==
    [][(/\ seal_call.op = "encryptIntent"
        /\ seal_call'.op = "encryptIntent"
        /\ seal_call'.intent = seal_call.intent
        /\ seal_call'.created_at = seal_call.created_at)
          => PlaintextOf(seal_call') = PlaintextOf(seal_call)]_vars

\* C28: isValidSealEncryption is true of every envelope encryptIntent returns,
\* and false of a byte string shorter than 8 bytes or whose little-endian
\* metadata length is below 10 or larger than the bytes after the prefix.
C28_StructuralCheck ==
    seal_call.op = "isValidSealEncryption" =>
        LET encrypted == seal_call.checked
        IN  /\ seal_call.valid \in BOOLEAN
            /\ encrypted = seal_call.result[1].encryptedBytes => seal_call.valid
            /\ Len(encrypted) < 8 => ~seal_call.valid
            /\ (Len(encrypted) >= 8 /\ getUint32(encrypted) < 10) => ~seal_call.valid
            /\ (Len(encrypted) >= 8 /\ getUint32(encrypted) > Len(encrypted) - 4)
                  => ~seal_call.valid

\* C28 witness: an envelope of encryptIntent has passed the check.
C28_Witness ==
    /\ seal_call.op = "isValidSealEncryption"
    /\ seal_call.checked = seal_call.result[1].encryptedBytes
    /\ seal_call.valid

\* The other cases of C28 happen too: a byte string with a length prefix of 9
\* and one whose prefix exceeds the remaining bytes by one have been rejected.
RejectedBelowMinimum ==
    /\ seal_call.op = "isValidSealEncryption"
    /\ Len(seal_call.checked) >= 8
    /\ getUint32(seal_call.checked) = 9
    /\ ~seal_call.valid

RejectedBeyondEnd ==
    /\ seal_call.op = "isValidSealEncryption"
    /\ Len(seal_call.checked) >= 8
    /\ getUint32(seal_call.checked) = Len(seal_call.checked) - 3
    /\ ~seal_call.valid

\* C29 as claimed: at every instant the client's isIntentExpired and the
\* registry's is_expired give the same answer for every intent.
C29_ExpiryChecksAgree ==
    \A i \in IntentIds :
        isIntentExpired(intents[i].expires_at, now) = is_expired(intents[i], now)

\* C30 as claimed: create_intent with the expiry calculateExpiry returns at
\* the instant of the call succeeds, given a valid trigger type, and the
\* expiry is a whole number of hours after that instant in milliseconds.
C30_ExpiryInRegistryUnit ==
    (last.op = "create_intent"
        /\ last.trigger_type \in {TRIGGER_PRICE_BELOW, TRIGGER_PRICE_ABOVE})
      => /\ last.effects = "success"
         /\ \E hours \in HoursInputs :
               last.expires_at = now + hours * 60 * 60 * 1000

\* The first half of C30 alone: the call succeeds.
CalculatedExpiryAccepted ==
    (last.op = "create_intent"
        /\ last.trigger_type \in {TRIGGER_PRICE_BELOW, TRIGGER_PRICE_ABOVE})
      => last.effects = "success"

=============================================================================
